---- MODULE Spec2Model ----
(***************************************************************************)
(* ghkeys: fetch the SSH public keys of GitHub users (src/ghkeys.py).      *)
(*                                                                         *)
(* One run of the program: the arguments are parsed, fetch_all launches    *)
(* one fetch_keys task per username, the tasks resolve in any order, and   *)
(* when all of them have resolved main resumes and runs to its end without *)
(* suspending again (JSON output, or text formatting and the output sink). *)
(*                                                                         *)
(* Text that the program strips, splits or joins (response bodies, key     *)
(* blocks, the payload, file contents) is a sequence of one-character      *)
(* strings.  Usernames, error messages, paths and diagnostic lines are     *)
(* strings.  An optional value (str | None) is <<>> for None and <<v>>     *)
(* for the value v.                                                        *)
(***************************************************************************)
EXTENDS Integers, Sequences, FiniteSets, TLC

\* Longest username list of a run.
MaxUsers == 2

\* The usernames a run may name (duplicates allowed in a list).
Names == {"al", "bo"}

\* The characters of a username, as they appear in the text payload.
UserChars(u) ==
  CASE u = "al" -> <<"a", "l">>
    [] u = "bo" -> <<"b", "o">>

NL == "\n"
SP == " "

\* Python's str.strip() and splitlines() on the model's alphabet.
IsSpace(c) == c \in {SP, NL}

RECURSIVE LStrip(_)
LStrip(s) ==
  IF s # <<>> /\ IsSpace(Head(s)) THEN LStrip(Tail(s)) ELSE s

RECURSIVE RStrip(_)
RStrip(s) ==
  IF s # <<>> /\ IsSpace(s[Len(s)]) THEN RStrip(SubSeq(s, 1, Len(s) - 1)) ELSE s

Strip(s) == RStrip(LStrip(s))

\* Index of the first line break of s, 0 when it has none.
FirstNL(s) ==
  IF \E i \in 1..Len(s) : s[i] = NL
  THEN CHOOSE i \in 1..Len(s) : s[i] = NL /\ \A j \in 1..(i - 1) : s[j] # NL
  ELSE 0

RECURSIVE SplitLines(_)
SplitLines(s) ==
  IF s = <<>> THEN <<>>
  ELSE LET i == FirstNL(s)
       IN  IF i = 0 THEN <<s>>
           ELSE <<SubSeq(s, 1, i - 1)>> \o SplitLines(SubSeq(s, i + 1, Len(s)))

\* sep.join(parts)
RECURSIVE Join(_, _)
Join(parts, sep) ==
  IF parts = <<>> THEN <<>>
  ELSE IF Len(parts) = 1 THEN parts[1]
  ELSE parts[1] \o sep \o Join(Tail(parts), sep)

\* str | None
None == <<>>
Some(v) == <<v>>

\* Python truthiness of an optional string: None and the empty string are false.
TruthyStr(o) == o # None /\ o[1] # ""
TruthyText(o) == o # None /\ o[1] # <<>>

FetchResult(user, keys, error) == [user |-> user, keys |-> keys, error |-> error]

\* What the network hands one fetch: a response (its status, its body), the
\* expiry of the 20 second timeout, or another exception with its str().
Bodies ==
  { <<SP, NL>>,
    <<"k", NL>>,
    <<"k", SP, NL, SP, NL, "j", NL>> }

\* The body of a non-200 response (an error page); fetch_keys never reads it.
ErrorPage == <<"k", NL>>

Outcomes ==
  [kind : {"response"}, status : {200}, body : Bodies, desc : {""}]
    \cup [kind : {"response"}, status : {404, 500}, body : {ErrorPage}, desc : {""}]
    \cup [kind : {"timeout"}, status : {0}, body : {<<>>}, desc : {""}]
    \cup [kind : {"exception"}, status : {0}, body : {<<>>},
          desc : {"", "Connection reset by peer"}]

\* The except clauses of fetch_keys.
TimeoutResult(user) == FetchResult(user, None, Some("Request timed out"))
ExceptionResult(user, desc) == FetchResult(user, None, Some(desc))

\* fetch_keys: the FetchResult of one user for one outcome of the request.
FetchKeysResult(user, o) ==
  IF o.kind = "response" THEN
    IF o.status = 404 THEN FetchResult(user, None, Some("User not found"))
    ELSE IF o.status # 200
      THEN FetchResult(user, None, Some("HTTP " \o ToString(o.status)))
    ELSE LET text == Strip(o.body)
         IN  IF text = <<>> THEN FetchResult(user, None, Some("No keys found"))
             ELSE FetchResult(user, Some(text), None)
  ELSE IF o.kind = "timeout" THEN TimeoutResult(user)
  ELSE ExceptionResult(user, o.desc)

\* Mutant of Caught: only the timeout is caught (no `except Exception`).
CaughtTimeoutOnly(kind) == kind = "timeout"

\* The except clauses of fetch_keys catch the timeout and every other Exception,
\* so a failed request of either kind becomes a FetchResult, never a raise.
Caught(kind) == kind \in {"timeout", "exception"}

\* What a fetch_keys task ends with: a returned FetchResult, or a raised
\* exception.  The outcome of its request is kept beside it (history).
TaskEnd(user, o) ==
  IF o.kind = "response" \/ Caught(o.kind)
  THEN [raised |-> FALSE, value |-> FetchKeysResult(user, o), outcome |-> o]
  ELSE [raised |-> TRUE, value |-> FetchResult(user, None, Some(o.desc)), outcome |-> o]

\* Mutant of Resolved: a fetch that fails ends the fetches still pending with it.
ResolvedCancelling(t, i, end) ==
  [j \in 1..Len(t) |->
     IF j = i \/ (t[j] = None /\ end.value.error # None) THEN Some(end) ELSE t[j]]

\* The tasks after task i has ended: its end is stored in its own slot, and
\* the other tasks run on.
Resolved(t, i, end) == [t EXCEPT ![i] = Some(end)]

\* gather waits for every task.
AllResolved(t) == \A i \in 1..Len(t) : t[i] # None

\* asyncio.gather: the tasks' results, in the order the tasks were given.
Gather(t) == [i \in 1..Len(t) |-> t[i][1].value]

\* result.error / result.keys as conditions (Python truthiness).
HasError(r) == TruthyStr(r.error)
HasKeys(r) == TruthyText(r.keys)

\* The diagnostic line of a failed result.
ErrorLine(r) == r.user \o ": " \o r.error[1]

\* A list comprehension's filter over the lines of a key block.
RECURSIVE InlineLines(_, _)
InlineLines(lines, user) ==
  IF lines = <<>> THEN <<>>
  ELSE IF Strip(Head(lines)) # <<>>
    THEN <<Head(lines) \o <<SP>> \o UserChars(user)>> \o InlineLines(Tail(lines), user)
  ELSE InlineLines(Tail(lines), user)

\* What one result with keys adds to the list `combined`.
FormatBlock(r, inline) ==
  IF inline THEN InlineLines(SplitLines(r.keys[1]), r.user)
  ELSE << <<"#", SP>> \o UserChars(r.user) \o <<NL>> \o r.keys[1] \o <<NL>> >>

\* The loop of format_results from the i-th result on, from the accumulator acc.
RECURSIVE FormatLoop(_, _, _, _)
FormatLoop(rs, inline, i, acc) ==
  IF i > Len(rs) THEN acc
  ELSE IF HasError(rs[i])
    THEN FormatLoop(rs, inline, i + 1,
           [acc EXCEPT !.had_errors = TRUE,
                       !.diag = Append(@, ErrorLine(rs[i]))])
  ELSE IF ~HasKeys(rs[i]) THEN FormatLoop(rs, inline, i + 1, acc)
  ELSE FormatLoop(rs, inline, i + 1,
         [acc EXCEPT !.combined = @ \o FormatBlock(rs[i], inline)])

\* Mutant of Normalize: the joined payload is not stripped.
NormalizeNoStrip(combined) == Join(combined, <<NL>>) \o <<NL>>

\* "\n".join(combined).strip() + "\n"
Normalize(combined) == Strip(Join(combined, <<NL>>)) \o <<NL>>

\* format_results: the payload, the had_errors flag, and the lines it prints
\* to stderr on the way.
FormatResults(rs, inline) ==
  LET acc == FormatLoop(rs, inline, 1, [combined |-> <<>>, had_errors |-> FALSE, diag |-> <<>>])
  IN  [text |-> Normalize(acc.combined), had_errors |-> acc.had_errors, diag |-> acc.diag]

\* One entry of the JSON array; error None is serialised as null.
JsonEntry(r) ==
  [user |-> r.user,
   keys |-> IF HasKeys(r) THEN SplitLines(r.keys[1]) ELSE <<>>,
   error |-> r.error]

\* Mutant of JsonData: as in text mode, only the users with keys are listed.
JsonDataOfSuccesses(rs) ==
  LET ok == SelectSeq(rs, HasKeys)
  IN  [i \in 1..Len(ok) |-> JsonEntry(ok[i])]

JsonData(rs) == [i \in 1..Len(rs) |-> JsonEntry(rs[i])]

\* Mutant of IsEmptyPayload: `if not combined`, which the final newline defeats.
IsEmptyString(combined) == combined = <<>>

\* `if not combined.strip()`
IsEmptyPayload(combined) == Strip(combined) = <<>>

\* The file system of the run: two files, each in its own directory.
OutputPath == "out/keys.txt"
DefaultPath == "~/.ssh/authorized_keys"
ExpandUser(p) == IF p = "~/.ssh/authorized_keys" THEN "/home/u/.ssh/authorized_keys" ELSE p
Paths == {ExpandUser(OutputPath), ExpandUser(DefaultPath)}
Parent(p) == IF p = "/home/u/.ssh/authorized_keys" THEN "/home/u/.ssh" ELSE "out"

\* What a file holds before the run, when it exists.
OldContent == <<"o", NL>>

\* The target of --append.
AppendTarget(a) ==
  IF a.output # None /\ a.output[1] # "" THEN ExpandUser(a.output[1])
  ELSE ExpandUser(DefaultPath)

\* Mutant of Refuses: the force flag is read the wrong way round.
RefusesWhenForced(exists, force) == exists /\ force

\* confirm_overwrite's condition for refusing.
Refuses(exists, force) == exists /\ ~force

\* Mutant of Appended: the file is opened in mode "w".
Overwritten(old, content) == content

\* The content of a file opened in mode "a" after writing content.
Appended(old, content) == (IF old = None THEN <<>> ELSE old[1]) \o content

VARIABLES
  users,       \* args.users
  args,        \* the flags: inline, json, append, output, force
  fs0,         \* history: the directories and files before the run
  dirs,        \* the directories that exist
  files,       \* path -> None, or Some(content) of the file
  task,        \* per username: None while the fetch is pending, Some(end) after
  reordered,   \* history: some fetch resolved while an earlier one was pending
  pc,          \* "start", "fetching", "done" (main returned), "exited" (sys.exit), "crashed"
  results,     \* main's results
  combined,    \* main's combined, <<>> until format_results has returned
  had_errors,  \* main's had_errors
  stdout,      \* the text printed to standard output
  stdoutJson,  \* the JSON documents printed to standard output
  stderr,      \* the lines printed to standard error
  exitCode     \* None while the process runs, then Some(code)

vars == <<users, args, fs0, dirs, files, task, reordered, pc, results, combined,
          had_errors, stdout, stdoutJson, stderr, exitCode>>

N == Len(users)

UserLists == UNION {[1..n -> Names] : n \in 1..MaxUsers}

ArgSets ==
  [inline : BOOLEAN, json : BOOLEAN, append : BOOLEAN,
   output : {None, Some(OutputPath)}, force : BOOLEAN]

\* The path the arguments name: --output, else the default of --append.
NamedPath(a) == AppendTarget(a)

\* The state of the named path before the run: its directory missing, its
\* directory there without the file, or the file there.  The other path's
\* file exists.
FsStates == {"nodir", "nofile", "file"}

Init ==
  /\ users \in UserLists
  /\ args \in ArgSets
  /\ \E st \in FsStates :
       /\ files = [p \in Paths |->
                     IF p = NamedPath(args) /\ st # "file" THEN None ELSE Some(OldContent)]
       /\ dirs = {Parent(p) : p \in {q \in Paths : q # NamedPath(args) \/ st # "nodir"}}
  /\ fs0 = [dirs |-> dirs, files |-> files]
  /\ task = [i \in 1..Len(users) |-> None]
  /\ reordered = FALSE
  /\ pc = "start"
  /\ results = <<>>
  /\ combined = <<>>
  /\ had_errors = FALSE
  /\ stdout = <<>>
  /\ stdoutJson = <<>>
  /\ stderr = <<>>
  /\ exitCode = None

\* fetch_all: one fetch_keys coroutine per username, handed to gather.
Launch ==
  /\ pc = "start"
  /\ pc' = "fetching"
  /\ UNCHANGED <<users, args, fs0, dirs, files, task, reordered, results, combined,
                 had_errors, stdout, stdoutJson, stderr, exitCode>>

\* One fetch_keys task runs to its end on the outcome of its request.
FetchKeys(i) ==
  /\ pc = "fetching"
  /\ i \in 1..N
  /\ task[i] = None
  /\ \E o \in Outcomes : task' = Resolved(task, i, TaskEnd(users[i], o))
  /\ reordered' = (reordered \/ \E j \in 1..(i - 1) : task[j] = None)
  /\ UNCHANGED <<users, args, fs0, dirs, files, pc, results, combined, had_errors,
                 stdout, stdoutJson, stderr, exitCode>>

\* Mutant of Returns: the exit code tells whether a fetch failed.
ReturnsErrorStatus ==
  /\ pc' = "done"
  /\ exitCode' = Some(IF had_errors' THEN 1 ELSE 0)

\* main returns normally: the process exits 0.
Returns ==
  /\ pc' = "done"
  /\ exitCode' = Some(0)

\* safe_append(path, content), after err was printed to stderr.
SafeAppend(path, content, err) ==
  /\ dirs' = dirs \cup {Parent(path)}
  /\ files' = [files EXCEPT ![path] = Some(Appended(@, content))]
  /\ stderr' = Append(err, "Appended keys to " \o path)
  /\ UNCHANGED <<stdout, stdoutJson>>
  /\ Returns

\* safe_write(path, content, force), after err was printed to stderr:
\* confirm_overwrite exits the process before anything is created or written.
SafeWrite(path, content, force, err) ==
  IF Refuses(files[path] # None, force)
  THEN /\ stderr' = Append(err, "File " \o path \o " already exists. Use --force to overwrite.")
       /\ pc' = "exited"
       /\ exitCode' = Some(1)
       /\ UNCHANGED <<dirs, files, stdout, stdoutJson>>
  ELSE /\ dirs' = dirs \cup {Parent(path)}
       /\ files' = [files EXCEPT ![path] = Some(content)]
       /\ stderr' = Append(err, "Wrote keys to " \o path)
       /\ UNCHANGED <<stdout, stdoutJson>>
       /\ Returns

\* Mutant of JsonOutput: the --output file is opened for writing before the
\* mode is looked at.
JsonOutputAlsoToFile(rs) ==
  /\ stdoutJson' = Append(stdoutJson, JsonData(rs))
  /\ dirs' = IF args.output # None THEN dirs \cup {Parent(ExpandUser(args.output[1]))} ELSE dirs
  /\ files' = IF args.output # None
                 THEN [files EXCEPT ![ExpandUser(args.output[1])] = Some(<<>>)]
                 ELSE files
  /\ UNCHANGED <<combined, had_errors, stdout, stderr>>
  /\ Returns

\* main in JSON mode: the array is printed and main returns.
JsonOutput(rs) ==
  /\ stdoutJson' = Append(stdoutJson, JsonData(rs))
  /\ UNCHANGED <<combined, had_errors, dirs, files, stdout, stderr>>
  /\ Returns

\* main in text mode: format_results, then the output sink.
TextOutput(rs) ==
  LET fmt == FormatResults(rs, args.inline)
      err == stderr \o fmt.diag
  IN  /\ combined' = fmt.text
      /\ had_errors' = fmt.had_errors
      /\ IF IsEmptyPayload(fmt.text)
         THEN /\ stderr' = Append(err, "No keys fetched.")
              /\ UNCHANGED <<dirs, files, stdout, stdoutJson>>
              /\ Returns
         ELSE LET err2 == IF fmt.had_errors THEN Append(err, "") ELSE err
              IN  IF args.append
                  THEN SafeAppend(AppendTarget(args), fmt.text, err2)
                  ELSE IF args.output # None /\ args.output[1] # ""
                  THEN SafeWrite(ExpandUser(args.output[1]), fmt.text, args.force, err2)
                  ELSE /\ stdout' = stdout \o fmt.text
                       /\ stderr' = err2
                       /\ UNCHANGED <<dirs, files, stdoutJson>>
                       /\ Returns

\* main resumes when gather has every task's end: an exception a task raised
\* propagates out of gather and main; otherwise main runs to its end.
Main ==
  /\ pc = "fetching"
  /\ AllResolved(task)
  /\ IF \E i \in 1..N : task[i][1].raised
     THEN /\ pc' = "crashed"
          /\ exitCode' = Some(1)
          /\ stderr' = Append(stderr, "Traceback (most recent call last):")
          /\ UNCHANGED <<results, combined, had_errors, dirs, files, stdout, stdoutJson>>
     ELSE /\ results' = Gather(task)
          /\ IF args.json THEN JsonOutput(Gather(task)) ELSE TextOutput(Gather(task))
  /\ UNCHANGED <<users, args, fs0, task, reordered>>

Next ==
  \/ Launch
  \/ \E i \in 1..MaxUsers : FetchKeys(i)
  \/ Main

Spec == Init /\ [][Next]_vars

\* The runs of the fair specification: every username list and every output
\* mode (--json, --append, --output), with the inputs that no step before the
\* output sink reads held fixed (no --inline-comments, no --force, both
\* directories there).
FairInit ==
  /\ Init
  /\ ~args.inline
  /\ ~args.force
  /\ dirs = {Parent(p) : p \in Paths}

\* The event loop starts the coroutines it was given, and each request ends
\* within its 20 second timeout: no fetch is postponed for ever.
FairSpec ==
  /\ FairInit
  /\ [][Next]_vars
  /\ WF_vars(Launch)
  /\ \A i \in 1..MaxUsers : WF_vars(FetchKeys(i))

(***************************************************************************)
(* The claims.  They are stated over what the network handed each fetch    *)
(* (the outcome kept in the task's slot), the arguments, the file system   *)
(* before the run (fs0) and what the run left behind.                      *)
(***************************************************************************)

Terminal == pc \in {"done", "exited", "crashed"}

Outcome(i) == task[i][1].outcome

\* A fetch succeeded: status 200 and a body that is not only whitespace.
Succeeded(o) ==
  /\ o.kind = "response"
  /\ o.status = 200
  /\ \E k \in 1..Len(o.body) : o.body[k] \notin {" ", "\n"}

AnyKeys == \E i \in 1..N : Succeeded(Outcome(i))

OutputGiven == args.output # <<>>

\* The file --append adds to.
Target == IF OutputGiven THEN args.output[1] ELSE "/home/u/.ssh/authorized_keys"

FileSystemUntouched == files = fs0.files /\ dirs = fs0.dirs

NothingOnStdout == stdout = <<>> /\ stdoutJson = <<>>

LastLine(lines) == IF lines = <<>> THEN "" ELSE lines[Len(lines)]

\* The error of a failed fetch, as section 4.1 of the specification lists it.
ExpectedError(o) ==
  IF o.kind = "timeout" THEN "Request timed out"
  ELSE IF o.kind = "exception" THEN o.desc
  ELSE IF o.status = 404 THEN "User not found"
  ELSE IF o.status = 200 THEN "No keys found"
  ELSE "HTTP " \o ToString(o.status)

\* C1: fetch_all returns exactly one FetchResult per requested username, the
\* i-th being the i-th username's own (a success when its fetch succeeded, a
\* failure otherwise), whatever the outcomes and the order of completion; no
\* failure escapes a fetch_keys task as an exception.
C1_OneResultPerUserInOrder ==
  /\ pc # "crashed"
  /\ \A i \in 1..N : task[i] # <<>> => ~task[i][1].raised
  /\ Terminal =>
       /\ Len(results) = Len(users)
       /\ \A i \in 1..N :
            /\ results[i].user = users[i]
            /\ (results[i].keys # <<>>) = Succeeded(Outcome(i))
            /\ (results[i].error = <<>>) = Succeeded(Outcome(i))

C1_Witness ==
  /\ Terminal
  /\ reordered
  /\ N = 2
  /\ users[1] = users[2]
  /\ Outcome(1).kind = "exception"
  /\ Succeeded(Outcome(2))
  /\ Len(results) = 2

\* C2: in text mode with a non-empty payload and --append, the target file
\* ends up holding its previous content (nothing when it did not exist)
\* followed by the payload, the other file is left alone, the write is never
\* refused, and nothing is printed to standard output.
C2_AppendKeepsPreviousContent ==
  (Terminal /\ ~args.json /\ args.append /\ AnyKeys) =>
    LET prev == IF fs0.files[Target] = <<>> THEN <<>> ELSE fs0.files[Target][1]
    IN  /\ pc = "done"
        /\ Len(combined) > 1
        /\ files[Target] = <<prev \o combined>>
        /\ \A p \in Paths \ {Target} : files[p] = fs0.files[p]
        /\ NothingOnStdout

C2_Witness ==
  /\ pc = "done"
  /\ ~args.json
  /\ args.append
  /\ OutputGiven
  /\ ~args.force
  /\ fs0.files[Target] = <<OldContent>>
  /\ files[Target] = <<OldContent \o combined>>
  /\ Len(combined) > 1

\* The run is a refused overwrite: text mode, a non-empty payload, --output
\* without --append, the target there before the run, no --force.
RefusedCase ==
  /\ ~args.json
  /\ AnyKeys
  /\ OutputGiven
  /\ ~args.append
  /\ ~args.force
  /\ fs0.files[args.output[1]] # <<>>

\* C3: a refused overwrite ends with a non-zero exit code and a diagnostic,
\* the file's content unchanged, no directory created, and the payload
\* written nowhere.
C3_RefusedOverwriteWritesNothing ==
  (Terminal /\ RefusedCase) =>
    /\ pc = "exited"
    /\ exitCode \notin {<<>>, <<0>>}
    /\ LastLine(stderr) = "File out/keys.txt already exists. Use --force to overwrite."
    /\ FileSystemUntouched
    /\ NothingOnStdout

C3_Witness ==
  /\ pc = "exited"
  /\ RefusedCase
  /\ had_errors
  /\ files[args.output[1]] = <<OldContent>>

\* C4: a run exits non-zero exactly in the refused-overwrite case; every
\* other run exits 0, whatever the fetches did.
C4_ExitCodeIgnoresFetchFailures ==
  Terminal =>
    IF RefusedCase THEN exitCode \notin {<<>>, <<0>>} ELSE exitCode = <<0>>

C4_Witness ==
  /\ Terminal
  /\ N = 2
  /\ Outcome(1).kind = "timeout"
  /\ Outcome(2).kind = "response" /\ Outcome(2).status = 404
  /\ ~args.json
  /\ exitCode = <<0>>

\* The diagnostic lines of the failed fetches from index i on, in input order.
RECURSIVE FailureLines(_)
FailureLines(i) ==
  IF i > N THEN <<>>
  ELSE IF Succeeded(Outcome(i)) THEN FailureLines(i + 1)
  ELSE <<users[i] \o ": " \o ExpectedError(Outcome(i))>> \o FailureLines(i + 1)

\* C5: in text mode every user whose fetch failed, in whatever way, is
\* reported by a line "{user}: {error}" on standard error, one per failure in
\* input order, and had_errors is true exactly when some fetch failed.
C5_EveryFailureReported ==
  (Terminal /\ ~args.json) =>
    /\ Len(stderr) >= Len(FailureLines(1))
    /\ SubSeq(stderr, 1, Len(FailureLines(1))) = FailureLines(1)
    /\ had_errors = (\E i \in 1..N : ~Succeeded(Outcome(i)))

\* C6: with --json, whatever the other flags and the outcomes, the run prints
\* the JSON array (one document, one entry per user) to standard output and
\* does nothing to the file system; it is never refused.
C6_JsonTouchesNoFile ==
  (Terminal /\ args.json) =>
    /\ pc = "done"
    /\ exitCode = <<0>>
    /\ Len(stdoutJson) = 1
    /\ Len(stdoutJson[1]) = N
    /\ stdout = <<>>
    /\ FileSystemUntouched

C6_Witness ==
  /\ Terminal
  /\ args.json
  /\ args.append
  /\ args.inline
  /\ OutputGiven
  /\ ~args.force
  /\ fs0.files[Target] # <<>>
  /\ AnyKeys
  /\ Len(stdoutJson) = 1

\* C7: in text mode, when no user yields keys, the run reports "No keys
\* fetched" on standard error, touches no file or directory, prints nothing
\* to standard output and exits 0, for every --append, --output and --force.
C7_NoKeysTouchesNothing ==
  (Terminal /\ ~args.json /\ ~AnyKeys) =>
    /\ pc = "done"
    /\ exitCode = <<0>>
    /\ LastLine(stderr) = "No keys fetched."
    /\ FileSystemUntouched
    /\ NothingOnStdout

C7_Witness ==
  /\ Terminal
  /\ ~args.json
  /\ ~AnyKeys
  /\ N = 2
  /\ Outcome(1).kind = "response" /\ Outcome(1).status = 200
  /\ Outcome(2).kind = "exception"
  /\ OutputGiven
  /\ ~args.append
  /\ ~args.force
  /\ fs0.files[Target] # <<>>
  /\ LastLine(stderr) = "No keys fetched."

\* The key lines of a body: the lines of the body without its leading and
\* trailing whitespace.
KeyText(o) == Strip(o.body)

NoLineBreak(line) == \A k \in 1..Len(line) : line[k] # "\n"

\* C8: the JSON array printed with --json holds one entry per input username,
\* in input order, failed users included; keys is the list of the user's key
\* lines (empty when there are none), error is null after a success and the
\* error string otherwise.
C8_JsonHasEveryUser ==
  (Terminal /\ args.json) =>
    /\ Len(stdoutJson) = 1
    /\ Len(stdoutJson[1]) = Len(users)
    /\ \A i \in 1..N :
         LET e == stdoutJson[1][i]
         IN  /\ e.user = users[i]
             /\ IF Succeeded(Outcome(i))
                THEN /\ e.error = <<>>
                     /\ e.keys # <<>>
                     /\ \A k \in 1..Len(e.keys) : NoLineBreak(e.keys[k])
                     /\ Join(e.keys, <<"\n">>) = KeyText(Outcome(i))
                ELSE /\ e.error = <<ExpectedError(Outcome(i))>>
                     /\ e.keys = <<>>

C8_Witness ==
  /\ Terminal
  /\ args.json
  /\ N = 2
  /\ users[1] = users[2]
  /\ Outcome(1).kind = "exception" /\ Outcome(1).desc = ""
  /\ Succeeded(Outcome(2))
  /\ Len(stdoutJson[1][2].keys) = 3
  /\ stdoutJson[1][1].error = <<"">>

IsBlank(line) == \A k \in 1..Len(line) : line[k] \in {" ", "\n"}

\* The header block of a successful fetch: "# {user}", a line break, the keys.
HeaderBlock(i) == <<"#", " ">> \o UserChars(users[i]) \o <<"\n">> \o KeyText(Outcome(i))

\* The annotated lines of a key block from its k-th line on, each ended by a
\* line break.
RECURSIVE AnnotatedFrom(_, _, _)
AnnotatedFrom(lines, k, user) ==
  IF k > Len(lines) THEN <<>>
  ELSE (IF IsBlank(lines[k]) THEN <<>> ELSE lines[k] \o <<" ">> \o UserChars(user) \o <<"\n">>)
         \o AnnotatedFrom(lines, k + 1, user)

\* The payload the claim describes for the fetches from index i on: without
\* inline annotation the header blocks, a blank line between two of them and
\* a line break after the last; with it, the annotated lines.
RECURSIVE ExpectedPayloadFrom(_, _)
ExpectedPayloadFrom(i, first) ==
  IF i > N THEN <<>>
  ELSE IF ~Succeeded(Outcome(i)) THEN ExpectedPayloadFrom(i + 1, first)
  ELSE IF args.inline
    THEN AnnotatedFrom(SplitLines(KeyText(Outcome(i))), 1, users[i])
           \o ExpectedPayloadFrom(i + 1, FALSE)
  ELSE (IF first THEN <<>> ELSE <<"\n">>) \o HeaderBlock(i) \o <<"\n">>
         \o ExpectedPayloadFrom(i + 1, FALSE)

EndsWithOneNewline(s) ==
  /\ s # <<>>
  /\ s[Len(s)] = "\n"
  /\ Len(s) > 1 => s[Len(s) - 1] # "\n"

NoLeadingWhitespace(s) == s = <<>> \/ s[1] \notin {" ", "\n"}

\* C9 as stated: the text payload is one block per successful result in
\* input order and nothing for a failed one, it has no leading whitespace and
\* ends with exactly one newline, for every result sequence.
C9_PayloadAsStated ==
  (Terminal /\ ~args.json) =>
    /\ AnyKeys => combined = ExpectedPayloadFrom(1, TRUE)
    /\ NoLeadingWhitespace(combined)
    /\ EndsWithOneNewline(combined)

\* C9, amended: as stated when some result is successful; when none is, the
\* payload is the single newline (so it does begin with whitespace).
C9_PayloadBlocks ==
  (Terminal /\ ~args.json) =>
    /\ EndsWithOneNewline(combined)
    /\ IF AnyKeys
       THEN /\ combined = ExpectedPayloadFrom(1, TRUE)
            /\ NoLeadingWhitespace(combined)
       ELSE combined = <<"\n">>

C9_Witness ==
  /\ Terminal
  /\ ~args.json
  /\ ~args.inline
  /\ N = 2
  /\ Succeeded(Outcome(1))
  /\ Succeeded(Outcome(2))
  /\ Len(KeyText(Outcome(2))) > 1
  /\ combined = ExpectedPayloadFrom(1, TRUE)

\* Something was printed or done to the file system.
OutputHappened ==
  \/ stderr # <<>>
  \/ stdout # <<>>
  \/ stdoutJson # <<>>
  \/ ~FileSystemUntouched
  \/ Terminal

\* A step leaves every resolved fetch as it is, resolves at most one pending
\* fetch, to a result of its own user, and changes nothing once the run is over.
IndependentStep ==
  /\ \A i \in 1..N : task[i] # <<>> => task'[i] = task[i]
  /\ \A i \in 1..N : (task[i] = <<>> /\ task'[i] # <<>>) =>
       /\ task'[i][1].value.user = users[i]
       /\ \A j \in (1..N) \ {i} : task'[j] = task[j]
  /\ Terminal => vars' = vars

FetchPending(i) == pc = "fetching" /\ i <= N /\ task[i] = <<>>
FetchResolved(i) == i <= N /\ task[i] # <<>>

\* C10: nothing is printed or written before every fetch has resolved; the
\* end of one fetch never cancels or changes another; every launched fetch
\* eventually resolves, after which main runs to its end in one step.
C10_JoinBeforeOutput ==
  /\ [](OutputHappened => AllResolved(task))
  /\ [][IndependentStep]_vars
  /\ \A i \in 1..MaxUsers : FetchPending(i) ~> FetchResolved(i)
  /\ <>(pc # "start" /\ AllResolved(task))

C10_Witness ==
  /\ Terminal
  /\ reordered
  /\ N = 2
  /\ Outcome(2).kind = "timeout"
  /\ Succeeded(Outcome(1))
  /\ OutputHappened

====
